---------------------------- MODULE Spec2Model ----------------------------
(***************************************************************************)
(* Model of the argus bot (Tinkoff/argus): the three webhook handlers of   *)
(* src/unnamed/part_001 (index.ts) and the ArgusBot / Bot classes of       *)
(* src/src/bot.ts, run against a model of the GitHub REST service:         *)
(* issue comments, the storage branch and its files, workflow artifacts.   *)
(*                                                                         *)
(* Every `await` of a remote call is one atomic step of a handler, so two  *)
(* handlers, and the uploads / deletions one handler issues with           *)
(* Promise.all, interleave at exactly the points where the code yields.    *)
(***************************************************************************)
EXTENDS Integers, Sequences, FiniteSets, TLC

VARIABLES
    comments,             \* remote: issue comments of the repository, in creation order
    branch,               \* remote: TRUE iff the storage branch exists
    files,                \* remote: files of the storage branch, path -> blob (NoFile if absent)
    reposConfigsStorage,  \* index.ts: process-wide configuration cache, repo name -> configs
    h,                    \* the running handlers, one record per slot of the runtime
    lastDone,             \* history: the handler run that settled last
    closedDone,           \* history: pull requests whose pull_request.closed run fulfilled
    started               \* history: number of webhook deliveries so far

vars == <<comments, branch, files, reposConfigsStorage, h, lastDone, closedDone, started>>

-----------------------------------------------------------------------------
(* Bounds of the model *)

MaxEvents == 3
MaxUserComments == 2       \* comments other users post on the pull requests

Slots == {1, 2}            \* handlers the runtime runs at the same time
PRs == {1, 2}              \* pull request numbers of the repository
Idx == {0, 1}              \* positional indices of stored images

-----------------------------------------------------------------------------
(* constants.ts (not under src/): names only *)

TEST_REPORT_HIDDEN_LABEL == "<!--argus-tests-report-->"
STORAGE_BRANCH == "argus-storage"
IMAGES_STORAGE_FOLDER == "__bot-screens"
LOADING_WORKFLOW == "LOADING_WORKFLOW"
SUCCESS_WORKFLOW == "SUCCESS_WORKFLOW"
FAILED_WORKFLOW_NO_SCREENSHOTS == "FAILED_WORKFLOW_NO_SCREENSHOTS"
FAILED_WORKFLOW == "FAILED_WORKFLOW"
PR_CLOSED == "PR_CLOSED"

DEFAULT_BOT_CONFIGS ==
    [workflowWithTests |-> {"test"}, screenshotsDiffsPaths |-> {"__diff_output__"}]

\* the repository the remote state of the model belongs to
Owner == "tinkoff"
Repo == "argus"

-----------------------------------------------------------------------------
(* Values *)

NoFile == "none"           \* getContent found nothing at the path
NoPr == 0                  \* prNumber when pull_requests is empty: undefined
NoCfg == [workflowWithTests |-> {}, screenshotsDiffsPaths |-> {"undefined"}]  \* no entry in the cache

Path(pr, idx) == [folder |-> <<IMAGES_STORAGE_FOLDER, Owner, Repo, pr>>, idx |-> idx]
NoUrl == [cdn |-> "", owner |-> "", repo |-> "", branch |-> "", path |-> [folder |-> <<>>, idx |-> 0]]

\* A comment body is a sequence of tokens: visible text, inline images, the label.
Txt(m) == [k |-> "text", v |-> m, url |-> NoUrl]
Pic(name, url) == [k |-> "img", v |-> name, url |-> url]
LabelTok(label) == [k |-> "label", v |-> label, url |-> NoUrl]


-----------------------------------------------------------------------------
(* The remote data the handlers only read: workflow runs and their artifacts *)

Entry(dir, name, data) == [dir |-> dir, name |-> name, data |-> data]

\* run id -> the workflow run: its workflow name (as words) and the zip
\* artifacts it produced, each a sequence of entries
WorkflowRun(run) ==
    CASE run = 1 -> [name |-> <<"e2e", "test">>,
                     artifacts |-> << <<Entry("__diff_output__", "a.png", "A"),
                                        Entry("videos", "v.mp4", "V"),
                                        Entry("__diff_output__", "b.png", "B")>> >>]
      [] run = 2 -> [name |-> <<"build">>,
                     artifacts |-> << <<Entry("videos", "v.mp4", "V")>>,
                                      <<Entry("__diff_output__", "c.png", "C")>> >>]
      [] run = 3 -> [name |-> <<"unit", "test">>,
                     artifacts |-> << <<Entry("videos", "v.mp4", "V")>> >>]
      [] run = 4 -> [name |-> <<"e2e", "test">>,
                     artifacts |-> << <<Entry("__diff_output__", "d.png", "D")>> >>]
      [] OTHER   -> [name |-> <<>>, artifacts |-> <<>>]

\* the paths uploadImages can name: `${prefix}/${owner}-${repo}-${prNumber}/${index}.png`,
\* the folder of prNumber undefined among them
AllPaths == {Path(pr, i) : pr \in PRs \cup {NoPr}, i \in Idx}

\* A webhook delivery: the repository it is about (context.repo()), the
\* pull request numbers of workflow_run.pull_requests in payload order (prs),
\* payload.number of a pull_request event (number), the run id (0: a payload
\* from which getWorkflowRunId resolves no id) and the conclusion.
Delivery(kind, owner, repo, prs, number, run, concl) ==
    [kind |-> kind, owner |-> owner, repo |-> repo, prs |-> prs, number |-> number,
     run |-> run, concl |-> concl]

RequestedFor(prs) == Delivery("requested", Owner, Repo, prs, NoPr, 0, "none")
CompletedFor(prs, run, concl) == Delivery("completed", Owner, Repo, prs, NoPr, run, concl)

\* deliveries about one pull request of the repository
Requested(pr) == RequestedFor(<<pr>>)
Completed(pr, run, concl) == CompletedFor(<<pr>>, run, concl)
Closed(pr) == Delivery("closed", Owner, Repo, <<>>, pr, 0, "none")
NoEv == Delivery("none", "", "", <<>>, NoPr, 0, "none")

Events ==
    {Requested(1)}
    \cup {Completed(1, 1, c) : c \in {"success", "failure", "cancelled"}}
    \cup {Completed(1, 0, "failure")}
    \cup {Closed(1)}

-----------------------------------------------------------------------------
(* utils.ts and selectors.ts (not under src/) *)

\* a pattern '.*w.*' matches a name iff the name holds the word w
MatchesPattern(word, name) == \E i \in 1..Len(name) : name[i] = word

markCommentWithHiddenLabel(text, label) == Append(text, LabelTok(label))

checkContainsHiddenLabel(body, label) ==
    \E i \in 1..Len(body) : body[i] = LabelTok(label)

\* the entries of one artifact that are diff images; no artifact: no image
getScreenshotDiffImages(artifact) ==
    SelectSeq(artifact,
              LAMBDA e : \E p \in DEFAULT_BOT_CONFIGS.screenshotsDiffsPaths : e.dir = p)

zip(a, b) ==
    [i \in 1..(IF Len(a) < Len(b) THEN Len(a) ELSE Len(b)) |-> <<a[i], b[i]>>]

getFailureReport(pairs) ==
    <<Txt(FAILED_WORKFLOW)>> \o [i \in 1..Len(pairs) |-> Pic(pairs[i][1].name, pairs[i][2])]

getWorkflowPrNumbers(ev) == ev.prs
getWorkflowRunConclusion(ev) == ev.concl
getWorkflowRunId(ev) == ev.run

-----------------------------------------------------------------------------
(* Bot: the remote calls (src/src/bot.ts) *)

getCommentsByIssueId(cs, pr) == SelectSeq(cs, LAMBDA c : c.pr = pr)

\* a comment carries its author: the bot's installation, or another user
Comment(id, pr, author, body) == [id |-> id, pr |-> pr, author |-> author, body |-> body]

sendComment(cs, pr, body) == Append(cs, Comment(Len(cs) + 1, pr, "bot", body))

updateComment(cs, id, body) ==
    [i \in 1..Len(cs) |-> IF cs[i].id = id THEN [cs[i] EXCEPT !.body = body] ELSE cs[i]]

\* the first artifact listed for the run, downloaded; the destructuring
\* `const [artifact] = ...` of the failure case keeps only this one
getWorkflowArtifacts(run) == WorkflowRun(run).artifacts

FirstArtifact(arts) == IF Len(arts) = 0 THEN <<>> ELSE arts[1]

\* getContent of a file path on the storage branch: the blob sha, or NoFile
getFile(fs, br, path) == IF br THEN fs[path] ELSE NoFile

\* getContent of the folder of a pull request: the indices of its files in
\* listing order, <<>> when getContent fails (no such folder or branch)
FolderListing(fs, br, pr) ==
    IF ~br THEN <<>>
    ELSE LET has(i) == fs[Path(pr, i)] # NoFile
         IN  (IF has(0) THEN <<0>> ELSE <<>>) \o (IF has(1) THEN <<1>> ELSE <<>>)

GITHUB_CDN_DOMAIN == "https://raw.githubusercontent.com"

\* uploadFile: `${GITHUB_CDN_DOMAIN}/${owner}/${repo}/${branch}/${path}`
FileUrl(br, path) ==
    [cdn |-> GITHUB_CDN_DOMAIN, owner |-> Owner, repo |-> Repo, branch |-> br, path |-> path]

-----------------------------------------------------------------------------
(* ArgusBot (src/src/bot.ts) *)

getSavedImagePathPrefix(pr) == Path(pr, 0).folder

\* the comment getPrevBotReportComment returns: the id of the first comment
\* of the pull request that holds the hidden label, 0 for null
getPrevBotReportComment(cs, pr) ==
    LET mine == getCommentsByIssueId(cs, pr)
        hits == {i \in 1..Len(mine) :
                    checkContainsHiddenLabel(mine[i].body, TEST_REPORT_HIDDEN_LABEL)}
    IN  IF hits = {} THEN 0
        ELSE mine[CHOOSE i \in hits : \A j \in hits : i <= j].id

\* createOrUpdateReport without the branch on oldBotComment: always a new comment
createOrUpdateReportAlwaysSend(cs, old, pr, text) ==
    sendComment(cs, pr, markCommentWithHiddenLabel(text, TEST_REPORT_HIDDEN_LABEL))

\* the write of createOrUpdateReport, given the comment found before it
createOrUpdateReport(cs, old, pr, text) ==
    LET marked == markCommentWithHiddenLabel(text, TEST_REPORT_HIDDEN_LABEL)
    IN  IF old # 0 THEN updateComment(cs, old, marked) ELSE sendComment(cs, pr, marked)

ReportCall(old) == IF old # 0 THEN "updateComment" ELSE "createComment"

\* results collected as the calls complete instead of by input position
PromiseAllCompletionOrder(ops, doneOrder) ==
    [i \in 1..Len(ops) |-> IF i <= Len(doneOrder) THEN ops[doneOrder[i]].res ELSE ops[i].res]

\* the array Promise.all resolves to: the results in the order of the input
PromiseAll(ops, doneOrder) == [i \in 1..Len(ops) |-> ops[i].res]


\* The repositories the app is installed on, and what getContent answers for
\* BOT_CONFIGS_FILE_NAME on the default branch of each: no such file, a
\* rejected request, a directory listing, or a file and its content.
Repository(owner, repo) == [owner |-> owner, repo |-> repo]

Repos ==
    {Repository(Owner, Repo), Repository("acme", Repo), Repository(Owner, "docs"),
     Repository(Owner, "site"), Repository(Owner, "cli")}

RepoNames == {r.repo : r \in Repos}

ConfigFile(owner, repo) ==
    CASE owner = "acme" /\ repo = Repo -> [kind |-> "file", content |-> "e2e"]
      [] repo = "docs" -> [kind |-> "file", content |-> "%%"]
      [] repo = "site" -> [kind |-> "dir", content |-> ""]
      [] repo = "cli" -> [kind |-> "error", content |-> ""]
      [] OTHER -> [kind |-> "missing", content |-> ""]

\* getFile(BOT_CONFIGS_FILE_NAME): the response, null when the request rejects
getConfigFile(owner, repo) ==
    LET f == ConfigFile(owner, repo)
    IN  IF f.kind \in {"missing", "error"} THEN [kind |-> "null", content |-> ""] ELSE f

\* utils.ts (not under src/): the parsed content, or a throw; an empty and a
\* malformed content do not parse
parseTomlFileBase64Str(content) ==
    IF content \in {"", "%%"} THEN [ok |-> FALSE, value |-> NoCfg]
    ELSE [ok |-> TRUE, value |-> [workflowWithTests |-> {content},
                                  screenshotsDiffsPaths |-> {"__diff_output__"}]]

\* loadBotConfigs without its final .catch: a throw of the parser propagates
loadBotConfigsNoCatch(res) ==
    parseTomlFileBase64Str(IF res.kind = "file" THEN res.content ELSE "")

\* loadBotConfigs on the response of getFile: the promise it returns, as
\* fulfilled or not (ok) and the value it fulfils with
loadBotConfigs(res) ==
    LET base64Str == IF res.kind = "file" THEN res.content ELSE ""
        parsed == parseTomlFileBase64Str(base64Str)
    IN  [ok |-> TRUE, value |-> IF parsed.ok THEN parsed.value ELSE DEFAULT_BOT_CONFIGS]

-----------------------------------------------------------------------------
(* The handlers of index.ts as processes *)

\* the pull request a handler works on: const [prNumber] =
\* getWorkflowPrNumbers(context), or context.payload.number when closed
PrNumber(ev) ==
    IF ev.kind = "closed" THEN ev.number
    ELSE IF Len(getWorkflowPrNumbers(ev)) = 0 THEN NoPr
    ELSE getWorkflowPrNumbers(ev)[1]

NoSnap == [comments |-> <<>>, branch |-> FALSE, files |-> [p \in AllPaths |-> NoFile]]

IdleH ==
    [ev |-> NoEv, pc |-> "idle", old |-> 0, text |-> <<>>, images |-> <<>>,
     ops |-> <<>>, doneOrder |-> <<>>, listed |-> <<>>, calls |-> {},
     solo |-> FALSE, prev |-> NoEv, prevSolo |-> FALSE, snap |-> NoSnap,
     withClosed |-> FALSE]

NoDone ==
    [ev |-> NoEv, ok |-> FALSE, solo |-> FALSE, prev |-> NoEv, prevSolo |-> FALSE,
     snap |-> NoSnap, calls |-> {}, text |-> <<>>, images |-> <<>>, listed |-> <<>>,
     old |-> 0, ops |-> <<>>, doneOrder |-> <<>>, withClosed |-> FALSE]

DoneRec(hr, ok) ==
    [ev |-> hr.ev, ok |-> ok, solo |-> hr.solo, prev |-> hr.prev, prevSolo |-> hr.prevSolo,
     snap |-> hr.snap, calls |-> hr.calls, text |-> hr.text, images |-> hr.images,
     listed |-> hr.listed, old |-> hr.old, ops |-> hr.ops, doneOrder |-> hr.doneOrder,
     withClosed |-> hr.withClosed]

NewOp(idx) == [idx |-> idx, st |-> "get", sha |-> NoFile, res |-> NoUrl]

Active(s) == h[s].pc # "idle"
Pending(hr) == \E i \in 1..Len(hr.ops) : hr.ops[i].st \in {"get", "put", "del"}
AllOk(hr) == \A i \in 1..Len(hr.ops) : hr.ops[i].st = "ok"

Init ==
    /\ comments = <<>>
    /\ branch = FALSE
    /\ files = [p \in AllPaths |-> NoFile]
    /\ reposConfigsStorage = [r \in RepoNames |-> NoCfg]
    /\ h = [s \in Slots |-> IdleH]
    /\ lastDone = NoDone
    /\ closedDone = {}
    /\ started = 0

\* A step of handler s that leaves it at record hr: still running ("run"),
\* returned ("ok"), thrown ("fail"), or a step of a call the handler no longer
\* awaits because Promise.all already rejected ("bg").
Commit(s, hr, outcome) ==
    /\ h' = [h EXCEPT ![s] =
                CASE outcome = "run" -> hr
                  [] outcome = "ok" -> IdleH
                  [] OTHER -> IF Pending(hr) THEN [hr EXCEPT !.pc = "failed"] ELSE IdleH]
    /\ lastDone' = IF outcome \in {"ok", "fail"} THEN DoneRec(hr, outcome = "ok") ELSE lastDone
    /\ closedDone' = IF outcome = "ok" /\ hr.ev.kind = "closed"
                     THEN closedDone \cup {PrNumber(hr.ev)} ELSE closedDone

\* The runtime delivers event ev to a new handler in slot s.  The history
\* fields: solo, whether the run overlaps no other run; prev, the event of
\* the run that fulfilled right before it; snap, the remote state it starts
\* from (kept for solo runs only); withClosed, whether the run overlaps a
\* pull_request.closed run (its calls still in flight included).
Begin(s, ev, pc, text) ==
    /\ started < MaxEvents
    /\ ~Active(s)
    /\ \A t \in Slots : t < s => Active(t)
    /\ started' = started + 1
    /\ LET alone == \A t \in Slots : ~Active(t)
       IN  h' = [t \in Slots |->
                  IF t = s
                  THEN [IdleH EXCEPT !.ev = ev, !.pc = pc, !.text = text, !.solo = alone,
                                     !.withClosed = \E u \in Slots : h[u].ev.kind = "closed",
                                     !.prev = IF alone /\ lastDone.ok THEN lastDone.ev ELSE NoEv,
                                     !.prevSolo = alone /\ lastDone.ok /\ lastDone.solo,
                                     !.snap = IF alone
                                              THEN [comments |-> comments, branch |-> branch,
                                                    files |-> files]
                                              ELSE NoSnap]
                  ELSE IF Active(t)
                       THEN [h[t] EXCEPT !.solo = FALSE, !.prev = NoEv, !.prevSolo = FALSE,
                                         !.snap = NoSnap,
                                         !.withClosed = @ \/ ev.kind = "closed"]
                       ELSE h[t]]
    /\ lastDone' = NoDone
    /\ UNCHANGED <<comments, branch, files, reposConfigsStorage, closedDone>>

\* app.on('workflow_run.requested'): up to the first await
StartRequested(s, ev) ==
    /\ ev.kind = "requested"
    /\ Begin(s, ev, "find", <<Txt(LOADING_WORKFLOW)>>)

\* app.on('workflow_run.completed'): up to the first await
StartCompleted(s, ev) ==
    /\ ev.kind = "completed"
    /\ Begin(s, ev, IF reposConfigsStorage[ev.repo] = NoCfg THEN "loadCfg" ELSE "switch", <<>>)

\* app.on('pull_request.closed'): up to the first await
StartClosed(s, ev) ==
    /\ ev.kind = "closed"
    /\ Begin(s, ev, "list", <<>>)

\* reposConfigsStorage[repo] = await bot.loadBotConfigs()
LoadBotConfigs(s) ==
    /\ h[s].pc = "loadCfg"
    /\ LET ev == h[s].ev
           loading == loadBotConfigs(getConfigFile(ev.owner, ev.repo))
       IN  IF loading.ok
           THEN /\ reposConfigsStorage' = [reposConfigsStorage EXCEPT ![ev.repo] = loading.value]
                /\ Commit(s, [h[s] EXCEPT !.pc = "switch"], "run")
           ELSE /\ Commit(s, h[s], "fail")
                /\ UNCHANGED reposConfigsStorage
    /\ UNCHANGED <<comments, branch, files, started>>

\* the diff images the failure case uploads and reports
ImagesOfRun(run) == getScreenshotDiffImages(FirstArtifact(getWorkflowArtifacts(run)))

\* the switch without `if (!workflowRunId) return`: the failure case goes on
\* with a run id that resolves no run
SwitchNoRunIdCheck(s) ==
    /\ h[s].pc = "switch"
    /\ LET ev == h[s].ev
           concl == getWorkflowRunConclusion(ev)
       IN  CASE concl = "success" ->
                  Commit(s, [h[s] EXCEPT !.pc = "find", !.text = <<Txt(SUCCESS_WORKFLOW)>>], "run")
             [] concl = "failure" ->
                  Commit(s, [h[s] EXCEPT !.pc = "branchInfo",
                                         !.images = ImagesOfRun(getWorkflowRunId(ev))], "run")
             [] OTHER ->
                  Commit(s, h[s], "ok")
    /\ UNCHANGED <<comments, branch, files, reposConfigsStorage, started>>

\* the switch with the `return` of case 'success' missing: the success case
\* falls through to the failure case
SwitchSuccessFallsThrough(s) ==
    /\ h[s].pc = "switch"
    /\ LET ev == h[s].ev
           concl == getWorkflowRunConclusion(ev)
       IN  CASE concl \in {"success", "failure"} /\ getWorkflowRunId(ev) = 0 ->
                  Commit(s, h[s], "ok")
             [] concl \in {"success", "failure"} /\ getWorkflowRunId(ev) # 0 ->
                  Commit(s, [h[s] EXCEPT !.pc = "branchInfo",
                                         !.images = ImagesOfRun(getWorkflowRunId(ev))], "run")
             [] OTHER ->
                  Commit(s, h[s], "ok")
    /\ UNCHANGED <<comments, branch, files, reposConfigsStorage, started>>

\* switch (getWorkflowRunConclusion(context)); the failure case through
\* `await bot.getWorkflowArtifacts(workflowRunId)` and getScreenshotDiffImages
\* (the artifacts of a run do not change, so the read is not a step of its own)
Switch(s) ==
    /\ h[s].pc = "switch"
    /\ LET ev == h[s].ev
           concl == getWorkflowRunConclusion(ev)
       IN  CASE concl = "success" ->
                  Commit(s, [h[s] EXCEPT !.pc = "find", !.text = <<Txt(SUCCESS_WORKFLOW)>>], "run")
             [] concl = "failure" /\ getWorkflowRunId(ev) = 0 ->
                  Commit(s, h[s], "ok")
             [] concl = "failure" /\ getWorkflowRunId(ev) # 0 ->
                  Commit(s, [h[s] EXCEPT !.pc = "branchInfo",
                                         !.images = ImagesOfRun(getWorkflowRunId(ev))], "run")
             [] OTHER ->
                  Commit(s, h[s], "ok")
    /\ UNCHANGED <<comments, branch, files, reposConfigsStorage, started>>

\* the text the failure case reports once uploadImages resolved to urls
ReportText(images, urls) ==
    IF Len(images) # 0 THEN getFailureReport(zip(images, urls))
    ELSE <<Txt(FAILED_WORKFLOW_NO_SCREENSHOTS)>>

\* uploadImages after createBranch: every uploadFile is issued at once
IssueUploads(hr) ==
    IF Len(hr.images) = 0
    THEN [hr EXCEPT !.pc = "find", !.text = ReportText(hr.images, <<>>)]
    ELSE [hr EXCEPT !.pc = "uploading", !.ops = [i \in 1..Len(hr.images) |-> NewOp(i - 1)]]

\* createBranch: if (await this.getBranchInfo(branch)) return
GetBranchInfo(s) ==
    /\ h[s].pc = "branchInfo"
    /\ Commit(s, IF branch THEN IssueUploads(h[s]) ELSE [h[s] EXCEPT !.pc = "createRef"], "run")
    /\ UNCHANGED <<comments, branch, files, reposConfigsStorage, started>>

\* createBranch: getBranch(fromBranch), then git.createRef; the service
\* rejects the creation of a reference that exists
CreateRef(s) ==
    /\ h[s].pc = "createRef"
    /\ IF branch
       THEN /\ Commit(s, h[s], "fail")
            /\ UNCHANGED branch
       ELSE /\ branch' = TRUE
            /\ Commit(s, IssueUploads([h[s] EXCEPT !.calls = @ \cup {"createRef"}]), "run")
    /\ UNCHANGED <<comments, files, reposConfigsStorage, started>>


\* a batch awaited as with Promise.allSettled: a rejection does not reject
\* the handler, which resumes when every call has settled
SettleAllSettled(s, hr, rejected, resumed) ==
    IF h[s].pc = "failed" THEN Commit(s, hr, "bg")
    ELSE IF ~Pending(hr) THEN Commit(s, resumed, "run")
    ELSE Commit(s, hr, "run")

\* a batch awaited as with Promise.any: the first fulfilment resumes the
\* handler while the other calls are still pending
SettleAnyFulfilled(s, hr, rejected, resumed) ==
    IF h[s].pc = "failed" THEN Commit(s, hr, "bg")
    ELSE IF rejected THEN Commit(s, hr, "fail")
    ELSE Commit(s, resumed, "run")

\* One call of a Promise.all batch settled, leaving the handler at record hr:
\* the first rejection rejects the handler at once while the other calls go
\* on; the last fulfilment resumes it at record resumed.
Settle(s, hr, rejected, resumed) ==
    IF h[s].pc = "failed" THEN Commit(s, hr, "bg")
    ELSE IF rejected THEN Commit(s, hr, "fail")
    ELSE IF AllOk(hr) THEN Commit(s, resumed, "run")
    ELSE Commit(s, hr, "run")

InBatch(s, pc, i, st) ==
    /\ h[s].pc \in {pc, "failed"}
    /\ h[s].ev.kind = (IF pc = "uploading" THEN "completed" ELSE "closed")
    /\ i \in 1..Len(h[s].ops)
    /\ h[s].ops[i].st = st

\* the path uploadImages gives the image of index idx
ImagePath(pr, idx) == [folder |-> getSavedImagePathPrefix(pr), idx |-> idx]

\* createOrUpdateFileContents / deleteFile of the service: a write names the
\* blob sha it replaces; without one it can only create the file
PutAccepted(cur, sha) == cur = NoFile \/ cur = sha
DeleteAccepted(cur, sha) == cur # NoFile /\ cur = sha

\* uploadFile: const oldFileVersion = await this.getFile(path, branch)
UploadGetFile(s, i) ==
    /\ InBatch(s, "uploading", i, "get")
    /\ LET path == ImagePath(PrNumber(h[s].ev), h[s].ops[i].idx)
       IN  Commit(s, [h[s] EXCEPT !.ops[i].st = "put",
                                  !.ops[i].sha = getFile(files, branch, path)], "run")
    /\ UNCHANGED <<comments, branch, files, reposConfigsStorage, started>>

\* the handler when every upload of uploadImages has fulfilled
AfterUploads(hr) ==
    [hr EXCEPT !.pc = "find",
               !.text = ReportText(hr.images, PromiseAll(hr.ops, hr.doneOrder))]

\* uploadFile: createOrUpdateFileContents(...).then(() => url); the service
\* may reject any write (concurrent commits to one branch conflict)
UploadPut(s, i) ==
    /\ InBatch(s, "uploading", i, "put")
    /\ \E served \in BOOLEAN :
         LET path == ImagePath(PrNumber(h[s].ev), h[s].ops[i].idx)
             ok == served /\ branch /\ PutAccepted(files[path], h[s].ops[i].sha)
             hr == IF ok
                   THEN [h[s] EXCEPT !.ops[i].st = "ok", !.ops[i].res = FileUrl(STORAGE_BRANCH, path),
                                     !.doneOrder = Append(@, i),
                                     !.calls = @ \cup {"createOrUpdateFileContents"}]
                   ELSE [h[s] EXCEPT !.ops[i].st = "err"]
         IN  /\ files' = IF ok THEN [files EXCEPT ![path] = h[s].images[i].data] ELSE files
             /\ Settle(s, hr, ~ok, AfterUploads(hr))
    /\ UNCHANGED <<comments, branch, reposConfigsStorage, started>>

\* deleteFile called for the first entry of the listing only
FilesToDeleteFirstOnly(listing) == <<listing[1]>>

\* deleteUploadedImagesFolder: the files deleteFile is called for
FilesToDelete(listing) == listing

\* deleteUploadedImagesFolder: const folder = await this.getFile(prefix, branch)
ListFolder(s) ==
    /\ h[s].pc = "list"
    /\ LET listing == FolderListing(files, branch, PrNumber(h[s].ev))
           todo == FilesToDelete(listing)
       IN  Commit(s, IF Len(listing) = 0
                     THEN [h[s] EXCEPT !.pc = "find", !.text = <<Txt(PR_CLOSED)>>]
                     ELSE [h[s] EXCEPT !.pc = "deleting", !.listed = listing,
                                       !.ops = [i \in 1..Len(todo) |-> NewOp(todo[i])]],
                  "run")
    /\ UNCHANGED <<comments, branch, files, reposConfigsStorage, started>>

\* the closed handler when deleteUploadedImagesFolder has fulfilled
AfterDeletes(hr) == [hr EXCEPT !.pc = "find", !.text = <<Txt(PR_CLOSED)>>]

\* deleteFile: getFile, and Promise.reject('the file is not found!')
DeleteGetFile(s, i) ==
    /\ InBatch(s, "deleting", i, "get")
    /\ LET path == ImagePath(PrNumber(h[s].ev), h[s].ops[i].idx)
           sha == getFile(files, branch, path)
           hr == IF sha = NoFile
                 THEN [h[s] EXCEPT !.ops[i].st = "err"]
                 ELSE [h[s] EXCEPT !.ops[i].st = "del", !.ops[i].sha = sha]
       IN  Settle(s, hr, sha = NoFile, hr)
    /\ UNCHANGED <<comments, branch, files, reposConfigsStorage, started>>

\* deleteFile: repos.deleteFile({path, branch, message, sha})
DeleteFile(s, i) ==
    /\ InBatch(s, "deleting", i, "del")
    /\ \E served \in BOOLEAN :
         LET path == ImagePath(PrNumber(h[s].ev), h[s].ops[i].idx)
             ok == served /\ branch /\ DeleteAccepted(files[path], h[s].ops[i].sha)
             hr == IF ok
                   THEN [h[s] EXCEPT !.ops[i].st = "ok", !.doneOrder = Append(@, i),
                                     !.calls = @ \cup {"deleteFile"}]
                   ELSE [h[s] EXCEPT !.ops[i].st = "err"]
         IN  /\ files' = IF ok THEN [files EXCEPT ![path] = NoFile] ELSE files
             /\ Settle(s, hr, ~ok, AfterDeletes(hr))
    /\ UNCHANGED <<comments, branch, reposConfigsStorage, started>>

\* createOrUpdateReport: const oldBotComment = await this.getPrevBotReportComment(prNumber)
\* (listComments with issue_number undefined names no issue: it rejects)
FindReport(s) ==
    /\ h[s].pc = "find"
    /\ IF PrNumber(h[s].ev) = NoPr
       THEN Commit(s, h[s], "fail")
       ELSE Commit(s, [h[s] EXCEPT !.pc = "write",
                                   !.old = getPrevBotReportComment(comments, PrNumber(h[s].ev))],
                   "run")
    /\ UNCHANGED <<comments, branch, files, reposConfigsStorage, started>>

\* createOrUpdateReport: updateComment or sendComment; the handler returns
WriteReport(s) ==
    /\ h[s].pc = "write"
    /\ comments' = createOrUpdateReport(comments, h[s].old, PrNumber(h[s].ev), h[s].text)
    /\ Commit(s, [h[s] EXCEPT !.calls = @ \cup {ReportCall(h[s].old)}], "ok")
    /\ UNCHANGED <<branch, files, reposConfigsStorage, started>>

Next ==
    \/ \E s \in Slots, ev \in Events : StartRequested(s, ev)
    \/ \E s \in Slots, ev \in Events : StartCompleted(s, ev)
    \/ \E s \in Slots, ev \in Events : StartClosed(s, ev)
    \/ \E s \in Slots : LoadBotConfigs(s)
    \/ \E s \in Slots : Switch(s)
    \/ \E s \in Slots : GetBranchInfo(s)
    \/ \E s \in Slots : CreateRef(s)
    \/ \E s \in Slots, i \in 1..2 : UploadGetFile(s, i)
    \/ \E s \in Slots, i \in 1..2 : UploadPut(s, i)
    \/ \E s \in Slots : ListFolder(s)
    \/ \E s \in Slots, i \in 1..2 : DeleteGetFile(s, i)
    \/ \E s \in Slots, i \in 1..2 : DeleteFile(s, i)
    \/ \E s \in Slots : FindReport(s)
    \/ \E s \in Slots : WriteReport(s)

Spec == Init /\ [][Next]_vars

-----------------------------------------------------------------------------
(* The configuration resolver alone: completed deliveries of every repository *)
(* the app is installed on, with conclusions that make no remote write.      *)

ConfigEvents ==
    {Delivery("completed", r.owner, r.repo, <<1>>, NoPr, 1, "cancelled") : r \in Repos}
    \cup {Delivery("completed", r.owner, r.repo, <<1>>, NoPr, 0, "failure") : r \in Repos}

NextConfig ==
    \/ \E s \in Slots, ev \in ConfigEvents : StartCompleted(s, ev)
    \/ \E s \in Slots : LoadBotConfigs(s)
    \/ \E s \in Slots : Switch(s)

SpecConfig == Init /\ [][NextConfig]_vars

-----------------------------------------------------------------------------
(* The workflow_run handlers alone, over deliveries whose pull_requests list *)
(* is empty, has one entry or has two, and over every failing run: two       *)
(* images (run 1), a second artifact (run 2), no image (run 3), one (run 4). *)

RunEvents ==
    {RequestedFor(prs) : prs \in {<<>>, <<1>>, <<2, 1>>}}
    \cup {CompletedFor(<<1>>, r, "failure") : r \in {1, 2, 3, 4}}
    \cup {CompletedFor(<<2, 1>>, 4, "failure")}
    \cup {CompletedFor(<<>>, 4, c) : c \in {"success", "failure"}}

NextRuns ==
    \/ \E s \in Slots, ev \in RunEvents : StartRequested(s, ev)
    \/ \E s \in Slots, ev \in RunEvents : StartCompleted(s, ev)
    \/ \E s \in Slots : LoadBotConfigs(s)
    \/ \E s \in Slots : Switch(s)
    \/ \E s \in Slots : GetBranchInfo(s)
    \/ \E s \in Slots : CreateRef(s)
    \/ \E s \in Slots, i \in 1..2 : UploadGetFile(s, i)
    \/ \E s \in Slots, i \in 1..2 : UploadPut(s, i)
    \/ \E s \in Slots : FindReport(s)
    \/ \E s \in Slots : WriteReport(s)

SpecRuns == Init /\ [][NextRuns]_vars

-----------------------------------------------------------------------------
(* The report comment among the comments of other users: the requested       *)
(* handler, and users who post on the pull request.                          *)

\* what a user posts: a remark, or the source of a bot report pasted back
\* (a quote of the report, hidden label included)
UserBodies ==
    {<<Txt("LGTM")>>, <<Txt("> "), Txt(LOADING_WORKFLOW), LabelTok(TEST_REPORT_HIDDEN_LABEL)>>}

UserComments == {i \in 1..Len(comments) : comments[i].author = "user"}

\* a user posts a comment on pull request pr
PostComment(pr, body) ==
    /\ Cardinality(UserComments) < MaxUserComments
    /\ comments' = Append(comments, Comment(Len(comments) + 1, pr, "user", body))
    /\ UNCHANGED <<branch, files, reposConfigsStorage, h, lastDone, closedDone, started>>

NextForeign ==
    \/ \E body \in UserBodies : PostComment(1, body)
    \/ \E s \in Slots : StartRequested(s, Requested(1))
    \/ \E s \in Slots : FindReport(s)
    \/ \E s \in Slots : WriteReport(s)

SpecForeign == Init /\ [][NextForeign]_vars


-----------------------------------------------------------------------------
(* Properties *)

Marked(text) == markCommentWithHiddenLabel(text, TEST_REPORT_HIDDEN_LABEL)

\* the bot-owned comments of a pull request, as positions in `comments`
BotComments(pr) ==
    {i \in 1..Len(comments) :
        /\ comments[i].pr = pr
        /\ checkContainsHiddenLabel(comments[i].body, TEST_REPORT_HIDDEN_LABEL)}

BotCommentsIn(cs, pr) ==
    {i \in 1..Len(cs) :
        /\ cs[i].pr = pr
        /\ checkContainsHiddenLabel(cs[i].body, TEST_REPORT_HIDDEN_LABEL)}

CommentWrites == {"createComment", "updateComment"}
Settled == lastDone.ev # NoEv
SettledKind(kind, concl) == Settled /\ lastDone.ev.kind = kind /\ lastDone.ev.concl = concl
FolderEmpty(fs, br, pr) == FolderListing(fs, br, pr) = <<>>
HandlersOf(pr) == {s \in Slots : Active(s) /\ PrNumber(h[s].ev) = pr}

\* the diff images of every artifact of a run, in artifact order
RECURSIVE DiffImagesOfAll(_)
DiffImagesOfAll(arts) ==
    IF Len(arts) = 0 THEN <<>>
    ELSE getScreenshotDiffImages(Head(arts)) \o DiffImagesOfAll(Tail(arts))

\* C1: in every reachable state, whatever handlers ran or are running on a
\* pull request, it carries at most one comment holding the hidden label.
C1_AtMostOneBotComment ==
    \A pr \in PRs : Cardinality(BotComments(pr)) <= 1

\* C2: a handler run that repeats the event of the run that fulfilled right
\* before it (both overlapping no other run) leaves the comments exactly as
\* that first run left them, and creates no comment: when it writes, it edits.
C2_RepeatedDeliveryIdempotent ==
    (Settled /\ lastDone.solo /\ lastDone.prevSolo /\ lastDone.prev = lastDone.ev)
        => /\ comments = lastDone.snap.comments
           /\ "createComment" \notin lastDone.calls

\* C2 witness: the same requested event handled twice on a pull request that
\* had no bot comment: the second run edited the one comment the first made.
C2_Witness ==
    /\ Settled /\ lastDone.ok /\ lastDone.solo /\ lastDone.prevSolo
    /\ lastDone.prev = lastDone.ev
    /\ lastDone.ev.kind = "requested"
    /\ "updateComment" \in lastDone.calls
    /\ Len(comments) = 1
    /\ lastDone.old = comments[1].id

\* C3: after a requested run and then a completed(success) run on a pull
\* request, it has exactly one bot comment, whose body is the success message.
C3_RequestedThenSuccess ==
    (/\ SettledKind("completed", "success") /\ lastDone.ok /\ lastDone.solo
     /\ lastDone.prev = Requested(PrNumber(lastDone.ev)))
        => /\ Cardinality(BotComments(PrNumber(lastDone.ev))) = 1
           /\ \A i \in BotComments(PrNumber(lastDone.ev)) :
                 comments[i].body = Marked(<<Txt(SUCCESS_WORKFLOW)>>)

\* C4: a completed(failure) run whose artifacts hold no diff image writes the
\* 'failure, no screenshots' message and makes no branch-creation and no
\* file-upload call; the storage branch and its files are as before.
C4_NoImagesNoStorageWrite ==
    (/\ SettledKind("completed", "failure") /\ lastDone.ok
     /\ getWorkflowRunId(lastDone.ev) # 0
     /\ DiffImagesOfAll(getWorkflowArtifacts(getWorkflowRunId(lastDone.ev))) = <<>>)
        => /\ lastDone.text = <<Txt(FAILED_WORKFLOW_NO_SCREENSHOTS)>>
           /\ lastDone.calls \cap {"createRef", "createOrUpdateFileContents"} = {}
           /\ lastDone.solo => (branch = lastDone.snap.branch /\ files = lastDone.snap.files)

\* C5: a completed run whose workflow name matches none of the configured
\* workflowWithTests patterns makes no remote write at all.
C5_OnlyWatchedWorkflows ==
    (/\ Settled /\ lastDone.ev.kind = "completed"
     /\ getWorkflowRunId(lastDone.ev) # 0
     /\ ~ \E w \in reposConfigsStorage[Repo].workflowWithTests :
            MatchesPattern(w, WorkflowRun(getWorkflowRunId(lastDone.ev)).name))
        => lastDone.calls = {}

\* C6: a completed(failure) run reports the diff images of every artifact
\* of the workflow run, and the 'no screenshots' message only when no
\* artifact holds one.
C6_EveryArtifactScanned ==
    (/\ SettledKind("completed", "failure") /\ lastDone.ok
     /\ getWorkflowRunId(lastDone.ev) # 0)
        => LET all == DiffImagesOfAll(getWorkflowArtifacts(getWorkflowRunId(lastDone.ev)))
           IN  /\ lastDone.images = all
               /\ (lastDone.text = <<Txt(FAILED_WORKFLOW_NO_SCREENSHOTS)>>) <=> (all = <<>>)

\* C7: a completed(failure) run with images I0..In-1 reports image Ik with
\* the URL of <folder>/k.png, in input order, whatever order the uploads
\* completed in; run alone, it leaves Ik's data at <folder>/k.png.
C7_UploadOrderPreserved ==
    (SettledKind("completed", "failure") /\ lastDone.ok /\ Len(lastDone.images) > 0)
        => LET pr == PrNumber(lastDone.ev)
               n == Len(lastDone.images)
           IN  /\ lastDone.text =
                     <<Txt(FAILED_WORKFLOW)>> \o
                     [k \in 1..n |->
                        Pic(lastDone.images[k].name,
                            [cdn |-> GITHUB_CDN_DOMAIN, owner |-> Owner, repo |-> Repo,
                             branch |-> STORAGE_BRANCH, path |-> Path(pr, k - 1)])]
               /\ lastDone.solo =>
                     /\ \A k \in 1..n : files[Path(pr, k - 1)] = lastDone.images[k].data
                     /\ \E i \in BotComments(pr) : comments[i].body = Marked(lastDone.text)

\* C7 witness: a run reported two images whose uploads completed in the
\* reverse of the input order.
C7_Witness ==
    /\ SettledKind("completed", "failure") /\ lastDone.ok /\ lastDone.solo
    /\ Len(lastDone.images) = 2
    /\ lastDone.doneOrder = <<2, 1>>

C9_FolderStaysRemoved ==
    \A pr \in closedDone :
        HandlersOf(pr) = {} => FolderEmpty(files, branch, pr)

\* C10: a handler in which a call before the final createOrUpdateReport
\* failed makes no comment write; run alone, it leaves the comments as they
\* were, id and body.
C10_FailedHandlerWritesNoComment ==
    /\ \A s \in Slots :
          (\E i \in 1..Len(h[s].ops) : h[s].ops[i].st = "err")
              => (h[s].pc = "failed" /\ h[s].calls \cap CommentWrites = {})
    /\ (Settled /\ (~lastDone.ok \/ \E i \in 1..Len(lastDone.ops) : lastDone.ops[i].st = "err"))
          => /\ ~lastDone.ok
             /\ lastDone.calls \cap CommentWrites = {}
             /\ lastDone.solo => comments = lastDone.snap.comments

\* C10 witness: a completed(failure) run alone on a pull request that has a
\* bot comment failed after one of its two uploads had been written.
C10_Witness ==
    /\ SettledKind("completed", "failure") /\ ~lastDone.ok /\ lastDone.solo
    /\ "createOrUpdateFileContents" \in lastDone.calls
    /\ BotCommentsIn(lastDone.snap.comments, PrNumber(lastDone.ev)) # {}

\* the content of a configuration file getFile cannot deliver or the parser
\* cannot parse: missing, request rejected, a directory, malformed
Unusable(f) == f.kind \in {"missing", "error", "dir"} \/ ~parseTomlFileBase64Str(f.content).ok

NoOpDelivery(ev) ==
    /\ ev.kind = "completed"
    /\ \/ getWorkflowRunConclusion(ev) \notin {"success", "failure"}
       \/ getWorkflowRunConclusion(ev) = "failure" /\ getWorkflowRunId(ev) = 0

\* the remote state is what it was when the run that just settled began
RemoteAsAtStart ==
    /\ comments = lastDone.snap.comments
    /\ branch = lastDone.snap.branch
    /\ files = lastDone.snap.files

StorageWrites == {"createRef", "createOrUpdateFileContents", "deleteFile"}

\* C12: a completed handler whose conclusion is neither success nor failure,
\* or whose conclusion is failure without resolvable run id, never gets past
\* the switch and makes no remote write; when it returns (it never throws),
\* comments, storage branch and files are what they were when it began.
C12_NoOpConclusionsChangeNothing ==
    /\ \A s \in Slots :
          (Active(s) /\ NoOpDelivery(h[s].ev))
              => h[s].pc \in {"loadCfg", "switch"} /\ h[s].calls = {}
    /\ (Settled /\ NoOpDelivery(lastDone.ev))
          => /\ lastDone.ok
             /\ lastDone.calls = {}
             /\ lastDone.solo => RemoteAsAtStart

\* C12 witness: a failure delivery without run id returned on a repository
\* that has a bot comment, the storage branch and stored images.
C12_Witness ==
    /\ Settled /\ lastDone.solo /\ NoOpDelivery(lastDone.ev)
    /\ getWorkflowRunConclusion(lastDone.ev) = "failure"
    /\ Len(comments) > 0 /\ branch
    /\ ~FolderEmpty(files, branch, PrNumber(lastDone.ev))

\* the deliveries that only set the report: requested, completed(success)
ReportOnly(ev) ==
    \/ ev.kind = "requested"
    \/ ev.kind = "completed" /\ getWorkflowRunConclusion(ev) = "success"

\* C13: a requested handler and a completed(success) handler fetch no
\* artifact, issue no upload or deletion and make no write to the storage
\* branch; when such a run that overlapped no other run has settled, the
\* branch and every stored file are what they were when it began.
C13_ReportOnlyKeepsStorage ==
    /\ \A s \in Slots :
          (Active(s) /\ ReportOnly(h[s].ev))
              => /\ h[s].pc \in {"loadCfg", "switch", "find", "write"}
                 /\ h[s].images = <<>> /\ h[s].ops = <<>>
                 /\ h[s].calls \cap StorageWrites = {}
    /\ (Settled /\ ReportOnly(lastDone.ev))
          => /\ lastDone.images = <<>> /\ lastDone.ops = <<>>
             /\ lastDone.calls \cap StorageWrites = {}
             /\ lastDone.solo => (branch = lastDone.snap.branch /\ files = lastDone.snap.files)

\* C13 witness: a success delivery was reported on a pull request whose
\* folder holds the two images of an earlier failing run: they are still there.
C13_Witness ==
    /\ SettledKind("completed", "success") /\ lastDone.ok /\ lastDone.solo
    /\ FolderListing(files, branch, PrNumber(lastDone.ev)) = <<0, 1>>
    /\ files[Path(PrNumber(lastDone.ev), 0)] = "A"
    /\ files[Path(PrNumber(lastDone.ev), 1)] = "B"
    /\ lastDone.prev = Completed(PrNumber(lastDone.ev), 1, "failure")

\* C14: when a handler that overlapped another handler has made its comment
\* write and no handler is running any more, its pull request has exactly one
\* bot comment, and the body of that comment is the text this last write wrote.
C14_ConcurrentLastWriteWins ==
    (/\ Settled /\ lastDone.ok /\ ~lastDone.solo
     /\ lastDone.calls \cap CommentWrites # {}
     /\ \A s \in Slots : ~Active(s))
        => /\ Cardinality(BotComments(PrNumber(lastDone.ev))) = 1
           /\ \A i \in BotComments(PrNumber(lastDone.ev)) :
                 comments[i].body = Marked(lastDone.text)

\* C15: when a completed(failure) handler that uploaded N >= 1 images has
\* returned, having overlapped no other run, the folder of its pull request
\* lists exactly 0.png..(N-1).png and each holds the image of that index.
C15_FolderHoldsLatestRunOnly ==
    (/\ SettledKind("completed", "failure") /\ lastDone.ok /\ lastDone.solo
     /\ Len(lastDone.images) > 0)
        => /\ FolderListing(files, branch, PrNumber(lastDone.ev))
                = [k \in 1..Len(lastDone.images) |-> k - 1]
           /\ \A k \in 1..Len(lastDone.images) :
                 files[Path(PrNumber(lastDone.ev), k - 1)] = lastDone.images[k].data

\* C16: uploads are issued only once the storage branch exists; a handler
\* that overlaps no other run reaches the create-ref call only when the branch
\* is absent; and createBranch never rejects, also for two handlers that both
\* found the branch absent: a completed(failure) handler throws only when one
\* of its upload calls was rejected.
C16_BranchEnsuredBeforeUpload ==
    /\ \A s \in Slots : h[s].pc = "uploading" => branch
    /\ \A s \in Slots : (h[s].pc = "createRef" /\ h[s].solo) => ~branch
    /\ (SettledKind("completed", "failure") /\ ~lastDone.ok)
          => \E i \in 1..Len(lastDone.ops) : lastDone.ops[i].st = "err"

\* comments and stored files of pull request q are what they were when the
\* run that just settled began
PullRequestAsAtStart(q) ==
    /\ getCommentsByIssueId(comments, q) = getCommentsByIssueId(lastDone.snap.comments, q)
    /\ \A i \in Idx : files[Path(q, i)] = lastDone.snap.files[Path(q, i)]

\* C17: when a workflow_run handler that overlapped no other run has settled,
\* the comments and the folder of every pull request other than the first of
\* its pull_requests list are unchanged; when the list is empty no comment
\* was created or edited and no file was written under any folder.
C17_OnlyFirstPullRequest ==
    (Settled /\ lastDone.solo /\ lastDone.ev.kind \in {"requested", "completed"})
        => /\ \A q \in PRs \ {PrNumber(lastDone.ev)} : PullRequestAsAtStart(q)
           /\ Len(getWorkflowPrNumbers(lastDone.ev)) = 0
                 => /\ comments = lastDone.snap.comments
                    /\ files = lastDone.snap.files
                    /\ lastDone.calls \cap (CommentWrites \cup {"createOrUpdateFileContents"}) = {}

\* the events are handled one at a time: no running handler overlaps another
OneAtATime == \A s \in Slots : Active(s) => h[s].solo

\* C18: with events handled one at a time, an entry of the configuration
\* cache is never written again once it is set (so no later completed event
\* loads again), and the entry a completed handler finds or stores for its
\* repository is the result of loading the configuration file of that same
\* repository, owner included.
C18_CacheEntryOfSameRepository ==
    /\ [][\A r \in RepoNames :
            (OneAtATime /\ reposConfigsStorage[r] # NoCfg)
                => reposConfigsStorage'[r] = reposConfigsStorage[r]]_vars
    /\ [](\A s \in Slots :
            (h[s].pc = "switch" /\ h[s].solo)
                => reposConfigsStorage[h[s].ev.repo]
                     = loadBotConfigs(getConfigFile(h[s].ev.owner, h[s].ev.repo)).value)

\* C19: a pull request that carries a comment written by the bot always has
\* a comment getPrevBotReportComment finds; the comment createOrUpdateReport
\* is about to edit is one the bot wrote; and the comments of other users
\* keep the body their author posted.
C19_DetectionIsExact ==
    /\ \A i \in 1..Len(comments) :
          comments[i].author = "bot" => getPrevBotReportComment(comments, comments[i].pr) # 0
    /\ \A s \in Slots :
          (h[s].pc = "write" /\ h[s].old # 0)
              => \A i \in 1..Len(comments) :
                    comments[i].id = h[s].old => comments[i].author = "bot"
    /\ \A i \in UserComments : comments[i].body \in UserBodies

\* handler s is a completed(failure) handler with images, at its comment write
WritesFailureReport(s) ==
    /\ h[s].pc = "write" /\ h'[s].pc = "idle"
    /\ h[s].ev.kind = "completed" /\ getWorkflowRunConclusion(h[s].ev) = "failure"
    /\ Len(h[s].images) > 0

\* every image the text embeds is, in the state after the step, a file of
\* the storage branch
ImagesStoredAfter(text) ==
    \A k \in 1..Len(text) :
        text[k].k = "img"
            => /\ branch'
               /\ text[k].url.path \in AllPaths
               /\ files'[text[k].url.path] # NoFile

\* C20 (as stated): in the state right after the comment write of a
\* completed(failure) handler with images, every image URL of the report it
\* wrote refers to a file that exists on the storage branch, whatever
\* handlers run concurrently.
C20_ReportNeverPointsAtMissingImage ==
    [][\A s \in Slots : WritesFailureReport(s) => ImagesStoredAfter(h[s].text)]_vars

\* C20 (amended): the same, for the handlers that no pull_request.closed
\* handler overlaps; another completed(failure) handler may run concurrently.
C20_ReportPointsAtStoredImagesUnlessClosed ==
    [][\A s \in Slots :
          (WritesFailureReport(s) /\ ~h[s].withClosed) => ImagesStoredAfter(h[s].text)]_vars

\* C20 witness: a completed(failure) handler that overlapped another handler,
\* none of them a closed handler, wrote a report with two images, both stored.
C20_Witness ==
    /\ SettledKind("completed", "failure") /\ lastDone.ok
    /\ ~lastDone.solo /\ ~lastDone.withClosed
    /\ Len(lastDone.images) = 2 /\ Len(lastDone.text) = 3
    /\ \A k \in 2..3 : files[lastDone.text[k].url.path] # NoFile
    /\ \E i \in BotComments(PrNumber(lastDone.ev)) : comments[i].body = Marked(lastDone.text)

=============================================================================
